---- MODULE Spec2Model ----
(***************************************************************************)
(* Model of the Conway plugin of src/src/conway.rs: the main-world systems *)
(* (clear_set_cells, handle_mouse_click), the extraction of SetCells and   *)
(* LivingCells between the worlds, the render-graph node ConwayRenderNode  *)
(* (update / run) and the blocking readback update_living_cells.           *)
(*                                                                         *)
(* One frame is the sequence of program points                             *)
(*   clear_set_cells -> handle_mouse_click -> extract_set_cells ->         *)
(*   copy_living_cells -> prepare_resources -> process_queue ->            *)
(*   node_update -> node_run -> submit_copy -> map_async -> poll ->        *)
(*   try_recv -> read -> (next frame).                                     *)
(* A panic ends the program: every action is guarded by panic = "none".    *)
(***************************************************************************)
EXTENDS Integers, Sequences, FiniteSets

\* ---------------------------------------------------------------- bounds
\* Number of pixels of the simulation texture (SIZE.0 * SIZE.1 in the code).
NumPixels == 2
\* The counter of update calls saturates here.
MaxUpdateCalls == 3
\* Window extent used by the clip-space conversion of a click.
WindowWidth == 2
WindowHeight == 2

\* ------------------------------------------------------- program constants
\* render_app.insert_resource(LivingCells(10))
RenderLivingCellsInit == 10
\* #[derive(Default)] struct LivingCells(u64)
LivingCellsDefault == 0
\* async_channel::bounded(1)
ChannelCapacity == 1
\* chunks(4): bytes per Rgba8Unorm pixel
BytesPerPixel == 4
\* *x == 255
AliveByte == 255

\* ------------------------------------------------------------------ values
\* Image::new_fill(.., &[0, 0, 0, 255], Rgba8Unorm)
FillPixel == <<0, 0, 0, 255>>
\* The pixel values a shader pass may leave in the texture.
PixelValues == {FillPixel, <<254, 255, 255, 255>>, <<255, 0, 0, 0>>}
Pixels == 1..NumPixels
AllTextures == [Pixels -> PixelValues]

\* Cursor positions a click may report; NoCursor is window.cursor_position() = None.
NoCursor == <<-1, -1>>
CursorPositions == {<<0, 0>>, <<1, 2>>}

\* No input read: the value of `click` outside handle_mouse_click's step.
NoInput == <<FALSE, NoCursor>>

\* CachedPipelineState
PipelineStates == {"Queued", "Ok", "Err"}

VARIABLES
    pc,          \* program point within the frame
    panic,       \* "none", or the unwrap / panic! that ended the program
    mSetCells,   \* main-world SetCells
    rSetCells,   \* render-world SetCells
    mLiving,     \* main-world LivingCells
    rLiving,     \* render-world LivingCells
    stage,       \* ConwayRenderNode(ConwayState)
    initPipe,    \* pipeline-cache state of init_pipeline
    updPipe,     \* pipeline-cache state of update_pipeline
    setPipe,     \* pipeline-cache state of set_cells_pipeline
    texture,     \* the GPU image of ConwayWorld
    buffer,      \* bytes of OutputBuffer
    mapState,    \* "unmapped", "pending", "mapped", "failed"
    chan,        \* messages in the bounded(1) channel
    \* history variables
    frameClicks, \* coordinates pushed by handle_mouse_click in this frame
    lastDraw,    \* vertices drawn by the set-cells pass of this frame's run
    lastCompute, \* compute passes dispatched by this frame's run
    passOrder,   \* "none", "init", "update", "bad": order of all compute passes
    nUpdate,     \* number of ConwayRenderNode::update calls (saturating)
    observedOk,  \* the compute pipelines an update call has found Ok
    click,       \* the input handle_mouse_click has just read: <<pressed, cursor>>
    trace,       \* events of the current update_living_cells invocation
    rSource,     \* where the render-world counter's value comes from
    mSource,     \* where the main-world counter's value comes from
    lastCount,   \* count of the last completed readback, -1 before the first
    runTexture   \* the texture as the last completed run left it

vars == <<pc, panic, mSetCells, rSetCells, mLiving, rLiving, stage, initPipe,
          updPipe, setPipe, texture, buffer, mapState, chan, frameClicks,
          lastDraw, lastCompute, passOrder, nUpdate, trace, rSource, mSource,
          lastCount, runTexture, observedOk, click>>

mainVars == <<mSetCells, mLiving>>
renderVars == <<rSetCells, rLiving>>
nodeVars == <<stage>>
cacheVars == <<initPipe, updPipe, setPipe>>
gpuVars == <<texture, buffer, mapState, chan>>
runHist == <<lastDraw, lastCompute, passOrder, runTexture>>
readHist == <<trace, rSource, mSource, lastCount>>
updHist == <<nUpdate, observedOk>>

\* ConwayPlugin::build, setup: the state before the first frame.
Init ==
    /\ pc = "clear_set_cells"
    /\ panic = "none"
    /\ mSetCells = <<>>
    /\ rSetCells = <<>>
    /\ mLiving = LivingCellsDefault
    /\ rLiving = RenderLivingCellsInit
    /\ stage = "Loading"
    /\ initPipe = "Queued"
    /\ updPipe = "Queued"
    /\ setPipe = "Queued"
    /\ texture = [p \in Pixels |-> FillPixel]
    /\ buffer = <<>>
    /\ mapState = "unmapped"
    /\ chan = 0
    /\ frameClicks = <<>>
    /\ lastDraw = <<>>
    /\ lastCompute = <<>>
    /\ passOrder = "none"
    /\ nUpdate = 0
    /\ observedOk = {}
    /\ click = NoInput
    /\ trace = <<>>
    /\ rSource = "insert_resource"
    /\ mSource = "default"
    /\ lastCount = -1
    /\ runTexture = [p \in Pixels |-> FillPixel]

At(point) == pc = point /\ panic = "none"

\* ------------------------------------------------------------- main world

\* fn clear_set_cells: set_cells.0.clear()
ClearSetCells ==
    /\ At("clear_set_cells")
    /\ mSetCells' = <<>>
    /\ frameClicks' = <<>>
    /\ lastDraw' = <<>>
    /\ lastCompute' = <<>>
    /\ pc' = "handle_mouse_click"
    /\ UNCHANGED <<panic, mLiving, renderVars, nodeVars, cacheVars, gpuVars,
                   passOrder, runTexture, updHist, click, readHist>>

\* The clip-space coordinate of a cursor position, kept exact: x is in units
\* of 1/WindowWidth and y in units of 1/WindowHeight.
\*   x = (cursor_pos.x / window.width()) * 2.0 - 1.0;  Vec2::new(x, -y)
ClipSpace(cursor) ==
    <<2 * cursor[1] - WindowWidth, -(2 * cursor[2] - WindowHeight)>>

\* handle_mouse_click pushing on any press, with the window's origin when the
\* cursor is outside.
PushClickNoCursorCheck(cells, justPressed, cursor) ==
    IF justPressed
    THEN Append(cells, ClipSpace(IF cursor = NoCursor THEN <<0, 0>> ELSE cursor))
    ELSE cells

\* The list handle_mouse_click leaves: a push on a fresh left press with a
\* cursor position, the list as it was otherwise.
PushClick(cells, justPressed, cursor) ==
    IF justPressed /\ cursor # NoCursor
    THEN Append(cells, ClipSpace(cursor))
    ELSE cells

\* fn handle_mouse_click
HandleMouseClick ==
    /\ At("handle_mouse_click")
    /\ \E justPressed \in BOOLEAN, cursor \in CursorPositions \cup {NoCursor} :
          /\ mSetCells' = PushClick(mSetCells, justPressed, cursor)
          /\ frameClicks' = PushClick(frameClicks, justPressed, cursor)
          /\ click' = <<justPressed, cursor>>
    /\ pc' = "extract_set_cells"
    /\ UNCHANGED <<panic, mLiving, renderVars, nodeVars, cacheVars, gpuVars,
                   runHist, updHist, readHist>>

\* ------------------------------------------------------------- extraction

\* ExtractResourcePlugin::<SetCells>: the derived ExtractResource clones the
\* main-world list into the render world (clear_set_cells marks it changed in
\* every frame).
ExtractSetCells ==
    /\ At("extract_set_cells")
    /\ rSetCells' = mSetCells
    /\ click' = NoInput
    /\ pc' = "copy_living_cells"
    /\ UNCHANGED <<panic, mainVars, rLiving, nodeVars, cacheVars, gpuVars,
                   frameClicks, runHist, updHist, readHist>>

\* copy_living_cells with the assignment reversed.
CopyLivingCellsReversed ==
    /\ At("copy_living_cells")
    /\ rLiving' = mLiving
    /\ rSource' = mSource
    /\ pc' = "prepare_resources"
    /\ UNCHANGED <<panic, mainVars, rSetCells, nodeVars, cacheVars, gpuVars,
                   frameClicks, runHist, updHist, click, trace, mSource, lastCount>>

\* fn copy_living_cells: main_world.resource_mut::<LivingCells>().0 = render_living_cells.0
CopyLivingCells ==
    /\ At("copy_living_cells")
    /\ mLiving' = rLiving
    /\ mSource' = rSource
    /\ pc' = "prepare_resources"
    /\ UNCHANGED <<panic, mSetCells, renderVars, nodeVars, cacheVars, gpuVars,
                   frameClicks, runHist, updHist, click, trace, rSource, lastCount>>

\* ------------------------------------------------------------ render world

\* fn prepare_resources: a fresh, unmapped, zeroed output buffer in every frame.
PrepareResources ==
    /\ At("prepare_resources")
    /\ buffer' = [i \in 1..(NumPixels * BytesPerPixel) |-> 0]
    /\ mapState' = "unmapped"
    /\ pc' = "process_queue"
    /\ UNCHANGED <<panic, mainVars, renderVars, nodeVars, cacheVars, texture,
                   chan, frameClicks, runHist, updHist, click, readHist>>

\* The states a queued pipeline may have after the cache processed its queue:
\* a compiled pipeline stays compiled (main.rs enables no asset watching), a
\* queued or failed one may stay as it is, compile, or fail.
PipelineSuccessors(state) ==
    IF state = "Ok" THEN {"Ok"} ELSE PipelineStates

\* The engine's pipeline cache working on the three pipelines queued by
\* ConwayPipeline::from_world, once per frame before the render graph runs.
ProcessQueue ==
    /\ At("process_queue")
    /\ initPipe' \in PipelineSuccessors(initPipe)
    /\ updPipe' \in PipelineSuccessors(updPipe)
    /\ setPipe' \in PipelineSuccessors(setPipe)
    /\ pc' = "node_update"
    /\ UNCHANGED <<panic, mainVars, renderVars, nodeVars, gpuVars,
                   frameClicks, runHist, updHist, click, readHist>>

\* ConwayRenderNode::update advancing through both stages in one call.
UpdateStageBothAtOnce(st, initState, updState) ==
    CASE st = "Loading" -> IF initState = "Ok"
                           THEN (IF updState = "Ok" THEN "Update" ELSE "Init")
                           ELSE "Loading"
      [] st = "Init"    -> IF updState = "Ok" THEN "Update" ELSE "Init"
      [] st = "Update"  -> "Update"

\* ConwayRenderNode::update leaving Loading without looking at the init pipeline.
UpdateStageIgnoreInitState(st, initState, updState) ==
    CASE st = "Loading" -> "Init"
      [] st = "Init"    -> IF updState = "Ok" THEN "Update" ELSE "Init"
      [] st = "Update"  -> "Update"

\* ConwayRenderNode::update testing the init pipeline in both arms.
UpdateStageChecksInitTwice(st, initState, updState) ==
    CASE st = "Loading" -> IF initState = "Ok" THEN "Init" ELSE "Loading"
      [] st = "Init"    -> IF initState = "Ok" THEN "Update" ELSE "Init"
      [] st = "Update"  -> "Update"

\* ConwayRenderNode::update: the stage after one call.
UpdateStage(st, initState, updState) ==
    CASE st = "Loading" -> IF initState = "Ok" THEN "Init" ELSE "Loading"
      [] st = "Init"    -> IF updState = "Ok" THEN "Update" ELSE "Init"
      [] st = "Update"  -> "Update"

Saturate(n) == IF n < MaxUpdateCalls THEN n + 1 ELSE n

\* The compute pipelines whose cache state one update call reads and finds Ok:
\* init_pipeline in the Loading arm, update_pipeline in the Init arm.
ObservedOk(st, initState, updState) ==
    CASE st = "Loading" -> IF initState = "Ok" THEN {"init"} ELSE {}
      [] st = "Init"    -> IF updState = "Ok" THEN {"update"} ELSE {}
      [] st = "Update"  -> {}

\* ConwayRenderNode::update
NodeUpdate ==
    /\ At("node_update")
    /\ stage' = UpdateStage(stage, initPipe, updPipe)
    /\ nUpdate' = Saturate(nUpdate)
    /\ observedOk' = observedOk \cup ObservedOk(stage, initPipe, updPipe)
    /\ pc' = "node_run"
    /\ UNCHANGED <<panic, mainVars, renderVars, cacheVars, gpuVars,
                   frameClicks, runHist, readHist, click>>

\* The match of run with the two pipelines swapped.
ComputePassesSwapped(st) ==
    CASE st = "Loading" -> <<>>
      [] st = "Init"    -> <<"update">>
      [] st = "Update"  -> <<"init">>

\* The match of run with the Init arm falling through into the Update arm.
ComputePassesFallThrough(st) ==
    CASE st = "Loading" -> <<>>
      [] st = "Init"    -> <<"init", "update">>
      [] st = "Update"  -> <<"update">>

\* The match of ConwayRenderNode::run: the compute passes encoded in a stage.
ComputePasses(st) ==
    CASE st = "Loading" -> <<>>
      [] st = "Init"    -> <<"init">>
      [] st = "Update"  -> <<"update">>

\* The cache state of the pipeline a compute pass unwraps.
PassPipeline(pass) == IF pass = "init" THEN initPipe ELSE updPipe

\* The vertices the set-cells render pass draws: draw(0..set_cells.0.len(), 0..1)
\* over a vertex buffer holding the whole list.
DrawnVertices(cells) == cells

\* The textures a set-cells pass over `cells` may leave: every vertex is one
\* point, blended by the fragment shader into at most one pixel.
RECURSIVE SetCellsPass(_, _)
SetCellsPass(tex, cells) ==
    IF cells = <<>> THEN {tex}
    ELSE LET one == {tex} \cup {[tex EXCEPT ![p] = v] : p \in Pixels, v \in PixelValues}
         IN UNION {SetCellsPass(t, Tail(cells)) : t \in one}

\* The textures the compute passes may leave: the shader rewrites the whole
\* storage texture.
ComputePass(tex, passes) == IF passes = <<>> THEN {tex} ELSE AllTextures

\* The order of the compute passes dispatched so far, as a monitor:
\* "init" after init passes only, "update" once an update pass followed them,
\* "bad" for an update pass with no init pass before it or an init pass after
\* an update pass.
PassOrder(order, pass) ==
    CASE pass = "init"   -> IF order \in {"none", "init"} THEN "init" ELSE "bad"
      [] pass = "update" -> IF order \in {"init", "update"} THEN "update" ELSE "bad"

RECURSIVE PassOrderAll(_, _)
PassOrderAll(order, passes) ==
    IF passes = <<>> THEN order
    ELSE PassOrderAll(PassOrder(order, Head(passes)), Tail(passes))

\* ConwayRenderNode::run
NodeRun ==
    /\ At("node_run")
    /\ LET passes == ComputePasses(stage)
           drawn == DrawnVertices(rSetCells)
       IN IF rSetCells # <<>> /\ setPipe # "Ok"
          THEN /\ panic' = "set_cells_pipeline_unwrap"
               /\ UNCHANGED <<pc, texture, runHist>>
          ELSE IF \E i \in 1..Len(passes) : PassPipeline(passes[i]) # "Ok"
          THEN /\ panic' = "compute_pipeline_unwrap"
               /\ UNCHANGED <<pc, texture, runHist>>
          ELSE /\ \E t \in SetCellsPass(texture, drawn) :
                      texture' \in ComputePass(t, passes)
               /\ runTexture' = texture'
               /\ lastDraw' = drawn
               /\ lastCompute' = passes
               /\ passOrder' = PassOrderAll(passOrder, passes)
               /\ pc' = "submit_copy"
               /\ UNCHANGED panic
    /\ UNCHANGED <<mainVars, renderVars, nodeVars, cacheVars, buffer, mapState,
                   chan, frameClicks, updHist, click, readHist>>

\* --------------------------------------------------- update_living_cells

\* copy_texture_to_buffer with bytes_per_row = 4 * SIZE.0: the pixels' bytes in
\* row-major order.
RECURSIVE FlattenFrom(_, _)
FlattenFrom(tex, p) ==
    IF p > NumPixels THEN <<>> ELSE tex[p] \o FlattenFrom(tex, p + 1)

Flatten(tex) == FlattenFrom(tex, 1)

\* slice.chunks(n)
RECURSIVE Chunks(_, _)
Chunks(bytes, n) ==
    IF bytes = <<>> THEN <<>>
    ELSE IF Len(bytes) <= n THEN <<bytes>>
    ELSE <<SubSeq(bytes, 1, n)>> \o Chunks(SubSeq(bytes, n + 1, Len(bytes)), n)

\* .chunks(4).map(|x| x[0]).collect()
RedBytes(bytes) ==
    LET chunks == Chunks(bytes, BytesPerPixel)
    IN [i \in 1..Len(chunks) |-> chunks[i][1]]

\* The comparison as a threshold instead of an equality.
IsAliveAtLeast254(byte) == IF byte >= 254 THEN 1 ELSE 0

\* (*x == 255) as u64
IsAlive(byte) == IF byte = AliveByte THEN 1 ELSE 0

\* result.iter().fold(0, |acc, x| acc + (*x == 255) as u64)
RECURSIVE Fold(_, _)
Fold(acc, bytes) ==
    IF bytes = <<>> THEN acc ELSE Fold(acc + IsAlive(Head(bytes)), Tail(bytes))

NAlive(bytes) == Fold(0, RedBytes(bytes))

\* gpu_image lookup, copy_texture_to_buffer, render_queue.submit
SubmitCopy ==
    /\ At("submit_copy")
    /\ buffer' = Flatten(texture)
    /\ trace' = <<"submit">>
    /\ pc' = "map_async"
    /\ UNCHANGED <<panic, mainVars, renderVars, nodeVars, cacheVars, texture,
                   mapState, chan, frameClicks, runHist, updHist, click, rSource,
                   mSource, lastCount>>

\* async_channel::bounded(1); render_device.map_buffer(.., callback)
MapAsync ==
    /\ At("map_async")
    /\ chan' = 0
    /\ mapState' = "pending"
    /\ trace' = Append(trace, "map")
    /\ pc' = "poll"
    /\ UNCHANGED <<panic, mainVars, renderVars, nodeVars, cacheVars, texture,
                   buffer, frameClicks, runHist, updHist, click, rSource, mSource, lastCount>>

\* The map results the device may report to the callback.
MapResults == {"ok", "err"}

\* The map callback that reports an error and goes on to send.
MapCallbackIgnoreError(result) ==
    /\ mapState' = (IF result = "err" THEN "failed" ELSE "mapped")
    /\ trace' = Append(trace, IF result = "err" THEN "callback_err" ELSE "callback_ok")
    /\ IF chan < ChannelCapacity
       THEN chan' = chan + 1 /\ pc' = "try_recv" /\ UNCHANGED panic
       ELSE panic' = "send_full" /\ UNCHANGED <<pc, chan>>

\* The closure given to map_buffer, run by the device with the map's result:
\*   err -> panic!(..);  ok -> tx.try_send(()).unwrap()
\* It runs inside poll, so its return is poll's return.
MapCallback(result) ==
    IF result = "err"
    THEN /\ mapState' = "failed"
         /\ panic' = "map_failed"
         /\ trace' = Append(trace, "callback_err")
         /\ UNCHANGED <<pc, chan>>
    ELSE /\ mapState' = "mapped"
         /\ trace' = Append(trace, "callback_ok")
         /\ IF chan < ChannelCapacity
            THEN chan' = chan + 1 /\ pc' = "try_recv" /\ UNCHANGED panic
            ELSE panic' = "send_full" /\ UNCHANGED <<pc, chan>>

\* poll(Maintain::Poll): returns at once, whether or not the map has completed.
PollNoWait ==
    /\ At("poll")
    /\ \/ \E result \in MapResults : MapCallback(result)
       \/ pc' = "try_recv" /\ UNCHANGED <<panic, mapState, chan, trace>>
    /\ UNCHANGED <<mainVars, renderVars, nodeVars, cacheVars, texture, buffer,
                   frameClicks, runHist, updHist, click, rSource, mSource, lastCount>>

\* wgpu_device().poll(Maintain::Wait): blocks until the pending map has
\* completed and its callback has run on this thread.
Poll ==
    /\ At("poll")
    /\ \E result \in MapResults : MapCallback(result)
    /\ UNCHANGED <<mainVars, renderVars, nodeVars, cacheVars, texture, buffer,
                   frameClicks, runHist, updHist, click, rSource, mSource, lastCount>>

\* rx.try_recv().unwrap()
TryRecv ==
    /\ At("try_recv")
    /\ IF chan > 0
       THEN /\ chan' = chan - 1
            /\ trace' = Append(trace, "recv")
            /\ pc' = "read"
            /\ UNCHANGED panic
       ELSE /\ panic' = "recv_empty"
            /\ UNCHANGED <<pc, chan, trace>>
    /\ UNCHANGED <<mainVars, renderVars, nodeVars, cacheVars, texture, buffer,
                   mapState, frameClicks, runHist, updHist, click, rSource, mSource, lastCount>>

\* get_mapped_range, the count, living_cells.0 = n_alive
ReadMapped ==
    /\ At("read")
    /\ IF mapState = "mapped"
       THEN /\ rLiving' = NAlive(buffer)
            /\ rSource' = "readback"
            /\ lastCount' = NAlive(buffer)
            /\ trace' = Append(trace, "read")
            /\ pc' = "clear_set_cells"
            /\ UNCHANGED panic
       ELSE /\ panic' = "buffer_not_mapped"
            /\ UNCHANGED <<pc, rLiving, rSource, lastCount, trace>>
    /\ UNCHANGED <<mainVars, rSetCells, nodeVars, cacheVars, gpuVars,
                   frameClicks, runHist, updHist, click, mSource>>

\* ------------------------------------------------------------------- spec

Next ==
    \/ ClearSetCells
    \/ HandleMouseClick
    \/ ExtractSetCells
    \/ CopyLivingCells
    \/ PrepareResources
    \/ ProcessQueue
    \/ NodeUpdate
    \/ NodeRun
    \/ SubmitCopy
    \/ MapAsync
    \/ Poll
    \/ TryRecv
    \/ ReadMapped

Spec == Init /\ [][Next]_vars

\* The frame loop keeps running: a system that is due is eventually run.
FairSpec == Spec /\ WF_vars(Next)

\* ----------------------------------------------------------------- claims

\* The number of pixels of a texture whose red byte is exactly 255.
RedCount(tex) == Cardinality({p \in Pixels : tex[p][1] = 255})

InTrace(event) == \E i \in 1..Len(trace) : trace[i] = event

ReadbackProtocol == <<"submit", "map", "callback_ok", "recv", "read">>

\* update_living_cells has just completed.
ReadbackCompleted == pc = "clear_set_cells" /\ InTrace("read")

\* C1: the stage starts as Loading and every step either leaves it unchanged
\* or advances it by exactly one step, in a call of update: Loading to Init
\* only when the init pipeline is Ok, Init to Update only when the update
\* pipeline is Ok; never Loading to Update in one call, never backwards, and
\* Update is never left.
C1_StageProgression ==
    /\ stage = "Loading"
    /\ [][\/ stage' = stage
          \/ /\ pc = "node_update"
             /\ stage = "Loading" /\ stage' = "Init" /\ initPipe = "Ok"
          \/ /\ pc = "node_update"
             /\ stage = "Init" /\ stage' = "Update" /\ updPipe = "Ok"]_vars

\* The first update call found both pipelines Ok and advanced to Init only.
C1_Witness ==
    /\ pc = "node_run" /\ nUpdate = 1
    /\ stage = "Init" /\ initPipe = "Ok" /\ updPipe = "Ok"

\* C2: with update called once before run in every frame, the compute passes
\* dispatched so far are ordered init then update: no update pass without an
\* init pass before it and no init pass after an update pass.
C2_InitBeforeUpdate ==
    /\ passOrder # "bad"
    /\ (lastCompute = <<"update">> => passOrder = "update")
    /\ (passOrder = "update" => stage = "Update")
    /\ (passOrder = "none" => lastCompute = <<>>)

\* An update pass has been dispatched, after an init pass.
C2_Witness == passOrder = "update" /\ lastCompute = <<"update">> /\ pc = "submit_copy"

\* C3: a run dispatches at most one compute pass; a run that returned
\* dispatched none in Loading, one init pass in Init and one update pass in
\* Update; and run leaves the stage as it is.
C3_RunDispatchByStage ==
    /\ [](Len(lastCompute) <= 1)
    /\ [](pc = "submit_copy" =>
            /\ stage = "Loading" => lastCompute = <<>>
            /\ stage = "Init" => lastCompute = <<"init">>
            /\ stage = "Update" => lastCompute = <<"update">>)
    /\ [][pc = "node_run" => stage' = stage]_vars

\* A run in stage Update returned after dispatching the update pass.
C3_Witness == pc = "submit_copy" /\ stage = "Update" /\ lastCompute = <<"update">>

\* C4: after update_living_cells completes the render-world counter is the
\* number of texture pixels whose red byte is exactly 255 (so at most one per
\* pixel, nothing for any other red byte, whatever the other channels hold).
C4_CountsRed255 ==
    ReadbackCompleted =>
        /\ rLiving = RedCount(texture)
        /\ rLiving <= NumPixels

\* A completed readback of a texture holding a red byte of 254 with other
\* channels at 255, and a red byte of 255 with all other channels 0.
C4_Witness ==
    /\ ReadbackCompleted
    /\ \E p, q \in Pixels : texture[p] = <<254, 255, 255, 255>> /\ texture[q] = <<255, 0, 0, 0>>
    /\ rLiving = 1

\* C5: the readback is submit copy, request map, wait until the callback has
\* run and sent, receive, read, in that order: the events of an invocation are
\* always a prefix of that sequence (or end in the failed callback), the
\* mapped data is read only from a buffer the callback reported mapped, the
\* receive never finds the channel empty and the send never finds it full.
C5_BlockingReadback ==
    /\ \/ \E n \in 0..Len(ReadbackProtocol) : trace = SubSeq(ReadbackProtocol, 1, n)
       \/ trace = <<"submit", "map", "callback_err">>
    /\ panic \notin {"recv_empty", "send_full", "buffer_not_mapped"}
    /\ (pc = "try_recv" => chan = ChannelCapacity /\ mapState = "mapped")
    /\ (pc = "read" => chan = 0 /\ mapState = "mapped")
    /\ (InTrace("read") => trace = ReadbackProtocol)

\* An invocation ran the whole protocol.
C5_Witness == ReadbackCompleted /\ trace = ReadbackProtocol /\ mapState = "mapped"

\* C6: a failed buffer map panics inside the wait; the program does nothing
\* after it, the mapped data is not read and the render-world counter keeps
\* the value of the last successful readback (its initial value before any).
C6_MapFailureFatal ==
    /\ (mapState = "failed" => panic = "map_failed")
    /\ (panic = "map_failed" =>
            /\ pc = "poll"
            /\ ~InTrace("recv") /\ ~InTrace("read")
            /\ rLiving = (IF lastCount = -1 THEN RenderLivingCellsInit ELSE lastCount)
            /\ ~ENABLED Next)

\* The map failed in a frame after a successful readback.
C6_Witness == panic = "map_failed" /\ lastCount >= 0 /\ rLiving = lastCount

\* C7: the main-world counter is its default 0 or a count produced by an
\* earlier update_living_cells readback and copied from the render world.
C7_MainCountFromReadback ==
    \/ mLiving = LivingCellsDefault
    \/ mSource = "readback" /\ mLiving \in 0..NumPixels

\* The program points of a frame after copy_living_cells and up to its run.
BeforeRun == {"prepare_resources", "process_queue", "node_update", "node_run"}
\* The program points of a frame between its run and the end of its readback.
AfterRun == {"submit_copy", "map_async", "poll", "try_recv", "read"}

\* C8: from the extract of a frame that follows a completed frame, the
\* main-world counter is the count the previous frame's update_living_cells
\* computed, which is the count of the texture as the previous frame's passes
\* left it; copy_living_cells leaves the render-world counter unchanged.
C8_OneFrameLag ==
    /\ []((lastCount # -1 /\ pc \in BeforeRun) =>
            mLiving = lastCount /\ lastCount = RedCount(runTexture))
    /\ []((lastCount # -1 /\ pc \in AfterRun) => mLiving = lastCount)
    /\ [][pc = "copy_living_cells" => rLiving' = rLiving]_vars

\* After the extract of a third or later frame the main world holds the
\* previous frame's count of two living cells.
C8_Witness ==
    /\ pc = "prepare_resources" /\ panic = "none" /\ nUpdate >= 2
    /\ mLiving = 2 /\ lastCount = 2 /\ RedCount(runTexture) = 2

\* C9: the clicks pushed in a frame are the render-world SetCells of that
\* frame's run, and once that run is over they are exactly what its set-cells
\* pass drew: each drawn once, none dropped, nothing else drawn.
C9_ClicksDrawnOnce ==
    /\ (pc = "node_run" => rSetCells = frameClicks)
    /\ ((pc \in AfterRun \/ (pc = "node_run" /\ panic # "none")) =>
            lastDraw = frameClicks)

\* C10: if update keeps being called and both compute pipelines eventually
\* are and stay Ok, the stage eventually is Update, after at least two update
\* calls; if the init pipeline is never Ok the stage stays Loading and no
\* compute pass is ever dispatched, whatever the update pipeline's state.
C10_EventuallyUpdate ==
    /\ ([]<>(pc = "node_update" /\ panic = "none")
          /\ <>[](initPipe = "Ok") /\ <>[](updPipe = "Ok"))
       => <>(stage = "Update")
    /\ [](stage = "Update" => nUpdate >= 2)
    /\ [](initPipe # "Ok") =>
          [](stage = "Loading" /\ passOrder = "none" /\ lastCompute = <<>>)

\* Stage Update reached by the second update call.
C10_Witness == stage = "Update" /\ nUpdate = 2 /\ pc = "node_run"

\* C11: the compute-pipeline unwraps of run never fail: whenever run is about
\* to fetch the init pipeline (stage Init) or the update pipeline (stage
\* Update), an earlier update call has found that pipeline Ok, and it is Ok.
C11_ComputeUnwrapsSucceed ==
    /\ panic # "compute_pipeline_unwrap"
    /\ (pc = "node_run" /\ stage = "Init") =>
            "init" \in observedOk /\ initPipe = "Ok"
    /\ (pc = "node_run" /\ stage = "Update") =>
            {"init", "update"} \subseteq observedOk /\ updPipe = "Ok"

\* A run in stage Init fetched the init pipeline, the only one seen Ok so far,
\* and dispatched its pass.
C11_Witness ==
    /\ pc = "submit_copy" /\ stage = "Init"
    /\ observedOk = {"init"} /\ lastCompute = <<"init">>

\* C12: whenever run has a non-empty SetCells list, in any stage, the
\* set-cells render pipeline is available, and run never panics on its unwrap.
C12_SetCellsPipelineReady ==
    /\ panic # "set_cells_pipeline_unwrap"
    /\ (pc = "node_run" /\ rSetCells # <<>>) => setPipe = "Ok"

\* C13: handle_mouse_click leaves SetCells as it is unless the left button was
\* just pressed and the window reports a cursor position, and then appends
\* exactly one coordinate at the end, keeping the earlier entries;
\* clear_set_cells empties the list and changes nothing else of the program's
\* state; no other step changes the main-world list.
C13_ClickListEffect ==
    [][/\ pc = "handle_mouse_click" =>
            IF click'[1] /\ click'[2] # NoCursor
            THEN /\ Len(mSetCells') = Len(mSetCells) + 1
                 /\ SubSeq(mSetCells', 1, Len(mSetCells)) = mSetCells
            ELSE mSetCells' = mSetCells
       /\ pc = "clear_set_cells" =>
            /\ mSetCells' = <<>>
            /\ UNCHANGED <<panic, mLiving, rSetCells, rLiving, stage, initPipe,
                           updPipe, setPipe, texture, buffer, mapState, chan>>
       /\ mSetCells' # mSetCells =>
            pc \in {"handle_mouse_click", "clear_set_cells"}]_vars

\* handle_mouse_click has just pushed a fresh press inside the window, in a
\* frame whose clear_set_cells emptied the previous frame's click.
C13_Witness ==
    /\ pc = "extract_set_cells" /\ panic = "none"
    /\ click[1] /\ click[2] # NoCursor
    /\ Len(mSetCells) = 1 /\ rSetCells # <<>>
====
